---- MODULE Spec2Model ----
(***************************************************************************)
(* docker-registry-checker (src/main.go): main reads docker.txt, spawns a  *)
(* pool of worker goroutines that probe https://<host>/v2/, collects the   *)
(* CheckResults from the results channel, filters, sorts and prints them.  *)
(*                                                                         *)
(* Strings are sequences of bytes, so that TrimSpace, HasPrefix, Contains  *)
(* and the < of sort.Slice are computed as Go computes them.               *)
(***************************************************************************)
EXTENDS Integers, Sequences, FiniteSets, Bags, TLC

(***************************************************************************)
(* Bounds of the model.                                                    *)
(***************************************************************************)
\* the longest docker.txt read, in lines
MaxLines == 2
\* the largest -workers value tried
MaxWorkers == 2

(***************************************************************************)
(* String literals of the program and of the errors net/http returns.      *)
(***************************************************************************)
\* "timeout", the needle of strings.Contains in worker
StrTimeout == <<116, 105, 109, 101, 111, 117, 116>>
\* "#", the comment prefix
StrHash == <<35>>
\* "-", printed for a status code of 0
StrDash == <<45>>
\* what *url.Error prints before the host: Get "https://
StrGetPrefix == <<71, 101, 116, 32, 34, 104, 116, 116, 112, 115, 58, 47, 47>>
\* ... and after it: /v2/":
StrGetSuffix == <<47, 118, 50, 47, 34, 58, 32>>
\* context deadline exceeded (Client.Timeout exceeded while awaiting headers)
StrClientTimeout ==
    <<99, 111, 110, 116, 101, 120, 116, 32, 100, 101, 97, 100, 108, 105, 110,
      101, 32, 101, 120, 99, 101, 101, 100, 101, 100, 32, 40, 67, 108, 105,
      101, 110, 116, 46, 84, 105, 109, 101, 111, 117, 116, 32, 101, 120, 99,
      101, 101, 100, 101, 100, 32, 119, 104, 105, 108, 101, 32, 97, 119, 97,
      105, 116, 105, 110, 103, 32, 104, 101, 97, 100, 101, 114, 115, 41>>
\* dial tcp 192.0.2.1:443: connect: connection refused
StrConnRefused ==
    <<100, 105, 97, 108, 32, 116, 99, 112, 32, 49, 57, 50, 46, 48, 46, 50, 46,
      49, 58, 52, 52, 51, 58, 32, 99, 111, 110, 110, 101, 99, 116, 58, 32, 99,
      111, 110, 110, 101, 99, 116, 105, 111, 110, 32, 114, 101, 102, 117, 115,
      101, 100>>
\* dial tcp: lookup
StrLookup ==
    <<100, 105, 97, 108, 32, 116, 99, 112, 58, 32, 108, 111, 111, 107, 117,
      112, 32>>
\* : no such host
StrNoSuchHost == <<58, 32, 110, 111, 32, 115, 117, 99, 104, 32, 104, 111, 115, 116>>
\* remote error: tls: handshake failure
StrTLSHandshake ==
    <<114, 101, 109, 111, 116, 101, 32, 101, 114, 114, 111, 114, 58, 32, 116,
      108, 115, 58, 32, 104, 97, 110, 100, 115, 104, 97, 107, 101, 32, 102,
      97, 105, 108, 117, 114, 101>>

(***************************************************************************)
(* The inputs of a run.                                                    *)
(***************************************************************************)
\* lines docker.txt may hold: "", " # a", " a<TAB>", "timeout"
LinePool == { <<>>, <<32, 35, 32, 97>>, <<32, 97, 9>>, StrTimeout }
\* values of -workers: negative, zero and positive
WorkerCounts == (0 - 1) .. MaxWorkers
\* the goroutine ids main hands to worker
WorkerIds == 0 .. (MaxWorkers - 1)
\* how client.Get fails in a run: the client's Timeout expires, or another
\* failure
Causes == {"ClientTimeout", "ConnRefused"}
\* every failure of client.Get modelled, for the probe taken alone
AllCauses == {"ClientTimeout", "ConnRefused", "NoSuchHost", "TLSHandshake"}
\* status codes a registry answers with in a run
StatusCodes == {200, 400, 401}
\* every status code of three digits, for the probe taken alone
AllStatusCodes == 100 .. 599
\* round-trip times of an answered probe, in hundredths of a second
Durations == {5}

(***************************************************************************)
(* strings                                                                 *)
(***************************************************************************)
\* unicode.IsSpace on the ASCII range
IsSpace(c) == c \in {9, 10, 11, 12, 13, 32}

RECURSIVE TrimLeft(_)
TrimLeft(s) ==
    IF s # <<>> /\ IsSpace(Head(s)) THEN TrimLeft(Tail(s)) ELSE s

RECURSIVE TrimRight(_)
TrimRight(s) ==
    IF s # <<>> /\ IsSpace(s[Len(s)])
    THEN TrimRight(SubSeq(s, 1, Len(s) - 1))
    ELSE s

\* strings.TrimSpace
TrimSpace(s) == TrimRight(TrimLeft(s))

\* strings.HasPrefix
HasPrefix(s, prefix) ==
    /\ Len(s) >= Len(prefix)
    /\ SubSeq(s, 1, Len(prefix)) = prefix

\* strings.Contains
Contains(s, substr) ==
    \E i \in 1 .. (Len(s) - Len(substr) + 1) :
        SubSeq(s, i, i + Len(substr) - 1) = substr

\* Go's < on strings: bytewise lexicographic, a proper prefix is smaller
RECURSIVE StrLess(_, _)
StrLess(a, b) ==
    IF b = <<>> THEN FALSE
    ELSE IF a = <<>> THEN TRUE
    ELSE IF Head(a) # Head(b) THEN Head(a) < Head(b)
    ELSE StrLess(Tail(a), Tail(b))

\* fmt.Sprintf("%d", n) for n >= 0
RECURSIVE FormatInt(_)
FormatInt(n) ==
    IF n < 10 THEN <<48 + n>>
    ELSE FormatInt(n \div 10) \o <<48 + (n % 10)>>

(***************************************************************************)
(* CheckResult and the probe                                               *)
(***************************************************************************)
\* the zero value CheckResult{Host: host}
NewResult(host) ==
    [Host |-> host, Available |-> FALSE, Time |-> 0, StatusCode |-> 0,
     IsTimeout |-> FALSE]

\* what client.Get returned: an error with its cause, or a response
NoReturn == [err |-> FALSE, cause |-> "", status |-> 0, elapsed |-> 0]
ErrReturn(cause) == [err |-> TRUE, cause |-> cause, status |-> 0, elapsed |-> 0]
RespReturn(status, elapsed) ==
    [err |-> FALSE, cause |-> "", status |-> status, elapsed |-> elapsed]
ReturnsWith(causes, codes) ==
    {ErrReturn(c) : c \in causes}
        \cup {RespReturn(s, d) : s \in codes, d \in Durations}
ProbeReturns == ReturnsWith(Causes, StatusCodes)
AllProbeReturns == ReturnsWith(AllCauses, AllStatusCodes)
\* one failure and one answer
EitherReturns == ReturnsWith({"ClientTimeout"}, {200})

\* err.Error() of the *url.Error client.Get returns for https://<host>/v2/
ErrorText(host, cause) ==
    StrGetPrefix \o host \o StrGetSuffix \o
        CASE cause = "ClientTimeout" -> StrClientTimeout
          [] cause = "ConnRefused" -> StrConnRefused
          [] cause = "NoSuchHost" -> StrLookup \o host \o StrNoSuchHost
          [] OTHER -> StrTLSHandshake

\* os.IsTimeout(err): the error's Timeout() method, true when http.Client's
\* Timeout expired
OsIsTimeout(cause) == cause = "ClientTimeout"

\* the condition of worker's inner if
TimeoutCond(host, cause) ==
    OsIsTimeout(cause) \/ Contains(ErrorText(host, cause), StrTimeout)

\* the status rule with the upper bound off by one
AvailableStatusUpTo400(statusCode) ==
    (statusCode >= 200 /\ statusCode <= 400) \/ statusCode = 401

\* the status rule of worker
AvailableStatus(statusCode) ==
    (statusCode >= 200 /\ statusCode < 400) \/ statusCode = 401

\* a result that starts as available and is only marked on a timeout
ProbeResultOptimistic(host, ret) ==
    IF ret.err
    THEN [NewResult(host) EXCEPT !.Available = TRUE,
                                 !.IsTimeout = TimeoutCond(host, ret.cause)]
    ELSE [NewResult(host) EXCEPT !.StatusCode = ret.status,
                                 !.Time = ret.elapsed,
                                 !.Available = AvailableStatus(ret.status)]

\* a result whose Time is taken before err is looked at
ProbeResultTimed(host, ret) ==
    IF ret.err
    THEN [NewResult(host) EXCEPT !.Available = FALSE,
                                 !.Time = CHOOSE d \in Durations : TRUE,
                                 !.IsTimeout = TimeoutCond(host, ret.cause)]
    ELSE [NewResult(host) EXCEPT !.StatusCode = ret.status,
                                 !.Time = ret.elapsed,
                                 !.Available = AvailableStatus(ret.status)]

\* the CheckResult worker sends for host, given what client.Get returned
ProbeResult(host, ret) ==
    IF ret.err
    THEN [NewResult(host) EXCEPT !.Available = FALSE,
                                 !.IsTimeout = TimeoutCond(host, ret.cause)]
    ELSE [NewResult(host) EXCEPT !.StatusCode = ret.status,
                                 !.Time = ret.elapsed,
                                 !.Available = AvailableStatus(ret.status)]

(***************************************************************************)
(* showProgress                                                            *)
(***************************************************************************)
\* the width of the progress bar
width == 40

\* %.1f of 100*current/total, in tenths of a percent (nearest, ties to even)
PercentTenths(current, total) ==
    LET q == (1000 * current) \div total
        r == (1000 * current) % total
    IN  IF 2 * r > total THEN q + 1
        ELSE IF 2 * r < total THEN q
        ELSE IF q % 2 = 0 THEN q ELSE q + 1

\* what one call of showProgress renders
showProgress(current, total) ==
    [current |-> current, total |-> total,
     filled |-> (width * current) \div total,
     tenths |-> PercentTenths(current, total)]

(***************************************************************************)
(* filtering, sorting and printing                                         *)
(***************************************************************************)
\* the filter without its test of Available
IsSuccessNotTimeout(result) == ~result.IsTimeout

\* result.Available && !result.IsTimeout
IsSuccess(result) == result.Available /\ ~result.IsTimeout

\* the loop that appends the successful results of a slice to a nil slice
SuccessesOf(rs) == SelectSeq(rs, IsSuccess)

\* the comparison the wrong way round
LessDescending(x, y) == StrLess(y.Host, x.Host)

\* the less function handed to sort.Slice
Less(x, y) == StrLess(x.Host, y.Host)

IsSortedBy(rs) == \A i \in 1 .. (Len(rs) - 1) : ~Less(rs[i + 1], rs[i])

IndexPerms(n) ==
    {f \in [1 .. n -> 1 .. n] : \A i, j \in 1 .. n : f[i] = f[j] => i = j}

\* sort.Slice is not stable: any ordering of rs that is sorted by Less
SortSlice(rs) ==
    {p \in {[i \in 1 .. Len(rs) |-> rs[f[i]]] : f \in IndexPerms(Len(rs))} :
        IsSortedBy(p)}

\* %.2fs of a duration given in hundredths of a second
FormatSeconds(d) ==
    FormatInt(d \div 100) \o <<46>> \o
        <<48 + ((d % 100) \div 10), 48 + (d % 10)>> \o <<115>>

\* one row of the table
Row(result) ==
    [Host |-> result.Host,
     status |-> IF ~result.Available THEN "no" ELSE "yes",
     statusCode |-> IF result.StatusCode = 0 THEN StrDash
                    ELSE FormatInt(result.StatusCode),
     timeStr |-> IF ~result.IsTimeout THEN FormatSeconds(result.Time)
                 ELSE StrTimeout]

(***************************************************************************)
(* State                                                                   *)
(***************************************************************************)
VARIABLES
    mpc,            \* where main is
    numWorkers,     \* -workers
    listSuccess,    \* -l
    exitReason,     \* why main returned before probing, "" otherwise
    lines,          \* the lines scanner.Scan has delivered
    hosts,          \* main's hosts slice
    chanCap,        \* the capacity of jobs and of results
    jobs,           \* the buffer of the jobs channel
    jobsClosed,     \* close(jobs) has run
    results,        \* the buffer of the results channel
    resultsClosed,  \* close(results) has run
    spawned,        \* i of the loop that starts the workers
    sent,           \* how many hosts the send loop has sent
    wg,             \* the WaitGroup's counter
    closer,         \* the goroutine of wg.Wait(); close(results)
    wpc,            \* where each worker is
    whost,          \* each worker's host
    wret,           \* each worker's resp, err of client.Get
    allResults,     \* main's allResults slice
    resultCount,    \* main's resultCount
    progress,       \* the calls of showProgress, in order
    displayResults, \* main's displayResults slice
    aliased,        \* displayResults shares allResults' backing array
    report,         \* the rows printed
    totalCount,     \* main's totalCount
    successCount,   \* main's successCount
    successResults  \* main's successResults slice

vars ==
    <<mpc, numWorkers, listSuccess, exitReason, lines, hosts, chanCap, jobs,
      jobsClosed, results, resultsClosed, spawned, sent, wg, closer, wpc,
      whost, wret, allResults, resultCount, progress, displayResults, aliased,
      report, totalCount, successCount, successResults>>

inputVars == <<numWorkers, listSuccess, lines, hosts>>
chanVars == <<chanCap, jobs, jobsClosed, results, resultsClosed>>
poolVars == <<spawned, sent, wg, closer, wpc, whost, wret>>
collectVars == <<allResults, resultCount, progress>>
reportVars ==
    <<displayResults, aliased, report, totalCount, successCount,
      successResults>>

Init ==
    /\ mpc = "flags"
    /\ numWorkers = 0
    /\ listSuccess = FALSE
    /\ exitReason = ""
    /\ lines = <<>>
    /\ hosts = <<>>
    /\ chanCap = 0
    /\ jobs = <<>>
    /\ jobsClosed = FALSE
    /\ results = <<>>
    /\ resultsClosed = FALSE
    /\ spawned = 0
    /\ sent = 0
    /\ wg = 0
    /\ closer = "none"
    /\ wpc = [w \in WorkerIds |-> "none"]
    /\ whost = [w \in WorkerIds |-> <<>>]
    /\ wret = [w \in WorkerIds |-> NoReturn]
    /\ allResults = <<>>
    /\ resultCount = 0
    /\ progress = <<>>
    /\ displayResults = <<>>
    /\ aliased = FALSE
    /\ report = <<>>
    /\ totalCount = 0
    /\ successCount = 0
    /\ successResults = <<>>

(***************************************************************************)
(* main, up to the channels                                                *)
(***************************************************************************)
\* flag.Parse
ParseFlags ==
    /\ mpc = "flags"
    /\ \E n \in WorkerCounts, l \in BOOLEAN :
        /\ numWorkers' = n
        /\ listSuccess' = l
    /\ mpc' = "acquire"
    /\ UNCHANGED <<exitReason, lines, hosts, chanVars, poolVars, collectVars,
                   reportVars>>

\* the update logic and os.Open: update is -update, exists the os.Stat of
\* docker.txt, dlOk and openOk whether downloadFromGithub and os.Open succeed
AcquireList ==
    /\ mpc = "acquire"
    /\ \E update, exists, dlOk, openOk \in BOOLEAN :
        IF (update \/ ~exists) /\ ~dlOk
        THEN mpc' = "exit" /\ exitReason' = "download"
        ELSE IF ~openOk
        THEN mpc' = "exit" /\ exitReason' = "open"
        ELSE mpc' = "scan" /\ exitReason' = ""
    /\ UNCHANGED <<inputVars, chanVars, poolVars, collectVars, reportVars>>

\* the test of the line without its comment part
KeepLineNotEmpty(host) == host # <<>>

\* the body of the scanner loop for one line
KeepLine(host) == host # <<>> /\ ~HasPrefix(host, StrHash)

AppendHost(hs, line) ==
    LET host == TrimSpace(line)
    IN  IF KeepLine(host) THEN Append(hs, host) ELSE hs

\* one iteration of for scanner.Scan()
ScanLine ==
    /\ mpc = "scan"
    /\ Len(lines) < MaxLines
    /\ \E line \in LinePool :
        /\ lines' = Append(lines, line)
        /\ hosts' = AppendHost(hosts, line)
    /\ UNCHANGED <<mpc, numWorkers, listSuccess, exitReason, chanVars,
                   poolVars, collectVars, reportVars>>

\* channels made with a buffer of one
ScanDoneBufferOfOne ==
    /\ mpc = "scan"
    /\ \E readErr \in BOOLEAN :
        IF readErr
        THEN mpc' = "exit" /\ exitReason' = "read" /\ chanCap' = chanCap
        ELSE IF Len(hosts) = 0
        THEN mpc' = "exit" /\ exitReason' = "empty" /\ chanCap' = chanCap
        ELSE mpc' = "spawn" /\ exitReason' = "" /\ chanCap' = 1
    /\ UNCHANGED <<inputVars, jobs, jobsClosed, results, resultsClosed,
                   poolVars, collectVars, reportVars>>

\* the end of the scanner loop without the check of len(hosts)
ScanDoneNoEmptyCheck ==
    /\ mpc = "scan"
    /\ \E readErr \in BOOLEAN :
        IF readErr
        THEN mpc' = "exit" /\ exitReason' = "read" /\ chanCap' = chanCap
        ELSE mpc' = "spawn" /\ exitReason' = "" /\ chanCap' = Len(hosts)
    /\ UNCHANGED <<inputVars, jobs, jobsClosed, results, resultsClosed,
                   poolVars, collectVars, reportVars>>

\* scanner.Scan() returns false: the checks of scanner.Err() and of
\* len(hosts), then the two make(chan, len(hosts))
ScanDone ==
    /\ mpc = "scan"
    /\ \E readErr \in BOOLEAN :
        IF readErr
        THEN mpc' = "exit" /\ exitReason' = "read" /\ chanCap' = chanCap
        ELSE IF Len(hosts) = 0
        THEN mpc' = "exit" /\ exitReason' = "empty" /\ chanCap' = chanCap
        ELSE mpc' = "spawn" /\ exitReason' = "" /\ chanCap' = Len(hosts)
    /\ UNCHANGED <<inputVars, jobs, jobsClosed, results, resultsClosed,
                   poolVars, collectVars, reportVars>>

(***************************************************************************)
(* main: the pool and the dispatch                                         *)
(***************************************************************************)
\* a worker started without wg.Add(1)
SpawnWorkerNoAdd ==
    /\ mpc = "spawn"
    /\ spawned < numWorkers
    /\ wpc' = [wpc EXCEPT ![spawned] = "range"]
    /\ spawned' = spawned + 1
    /\ UNCHANGED <<mpc, exitReason, inputVars, chanVars, sent, wg, closer,
                   whost, wret, collectVars, reportVars>>

\* one iteration of for i := 0; i < numWorkers; i++
SpawnWorker ==
    /\ mpc = "spawn"
    /\ spawned < numWorkers
    /\ wg' = wg + 1
    /\ wpc' = [wpc EXCEPT ![spawned] = "range"]
    /\ spawned' = spawned + 1
    /\ UNCHANGED <<mpc, exitReason, inputVars, chanVars, sent, closer, whost,
                   wret, collectVars, reportVars>>

\* one iteration of for _, host := range hosts: jobs <- host
SendJob ==
    /\ mpc = "spawn"
    /\ spawned >= numWorkers
    /\ sent < Len(hosts)
    /\ Len(jobs) < chanCap
    /\ jobs' = Append(jobs, hosts[sent + 1])
    /\ sent' = sent + 1
    /\ UNCHANGED <<mpc, exitReason, inputVars, chanCap, jobsClosed, results,
                   resultsClosed, spawned, wg, closer, wpc, whost, wret,
                   collectVars, reportVars>>

\* close(jobs) before the send loop is through
CloseJobsEarly ==
    /\ mpc = "spawn"
    /\ spawned >= numWorkers
    /\ jobsClosed' = TRUE
    /\ mpc' = "closer"
    /\ UNCHANGED <<exitReason, inputVars, chanCap, jobs, results,
                   resultsClosed, poolVars, collectVars, reportVars>>

\* close(jobs)
CloseJobs ==
    /\ mpc = "spawn"
    /\ spawned >= numWorkers
    /\ sent = Len(hosts)
    /\ jobsClosed' = TRUE
    /\ mpc' = "closer"
    /\ UNCHANGED <<exitReason, inputVars, chanCap, jobs, results,
                   resultsClosed, poolVars, collectVars, reportVars>>

\* allResults := make(..., 0, len(hosts)); resultCount := 0; go func() {...}()
StartCloser ==
    /\ mpc = "closer"
    /\ allResults' = <<>>
    /\ resultCount' = 0
    /\ closer' = "wait"
    /\ mpc' = "collect"
    /\ UNCHANGED <<exitReason, inputVars, chanVars, spawned, sent, wg, wpc,
                   whost, wret, progress, reportVars>>

\* close(results) without wg.Wait()
CloserCloseNoWait ==
    /\ closer = "wait"
    /\ resultsClosed' = TRUE
    /\ closer' = "done"
    /\ UNCHANGED <<mpc, exitReason, inputVars, chanCap, jobs, jobsClosed,
                   results, spawned, sent, wg, wpc, whost, wret, collectVars,
                   reportVars>>

\* wg.Wait() returns; close(results)
CloserClose ==
    /\ closer = "wait"
    /\ wg = 0
    /\ resultsClosed' = TRUE
    /\ closer' = "done"
    /\ UNCHANGED <<mpc, exitReason, inputVars, chanCap, jobs, jobsClosed,
                   results, spawned, sent, wg, wpc, whost, wret, collectVars,
                   reportVars>>

(***************************************************************************)
(* worker                                                                  *)
(***************************************************************************)
\* a receive that leaves the host in jobs
WorkerRangePeek(w) ==
    /\ wpc[w] = "range"
    /\ jobs # <<>>
    /\ whost' = [whost EXCEPT ![w] = Head(jobs)]
    /\ wpc' = [wpc EXCEPT ![w] = "get"]
    /\ UNCHANGED <<mpc, exitReason, inputVars, chanVars, spawned, sent, wg,
                   closer, wret, collectVars, reportVars>>

\* for host := range jobs receives a host
WorkerRange(w) ==
    /\ wpc[w] = "range"
    /\ jobs # <<>>
    /\ whost' = [whost EXCEPT ![w] = Head(jobs)]
    /\ jobs' = Tail(jobs)
    /\ wpc' = [wpc EXCEPT ![w] = "get"]
    /\ UNCHANGED <<mpc, exitReason, inputVars, chanCap, jobsClosed, results,
                   resultsClosed, spawned, sent, wg, closer, wret,
                   collectVars, reportVars>>

\* a worker that returns without wg.Done()
WorkerExitNoDone(w) ==
    /\ wpc[w] = "range"
    /\ jobs = <<>>
    /\ jobsClosed
    /\ wpc' = [wpc EXCEPT ![w] = "exited"]
    /\ UNCHANGED <<mpc, exitReason, inputVars, chanVars, spawned, sent, wg,
                   closer, whost, wret, collectVars, reportVars>>

\* for host := range jobs ends: jobs is closed and drained; defer wg.Done()
WorkerExit(w) ==
    /\ wpc[w] = "range"
    /\ jobs = <<>>
    /\ jobsClosed
    /\ wpc' = [wpc EXCEPT ![w] = "exited"]
    /\ wg' = wg - 1
    /\ UNCHANGED <<mpc, exitReason, inputVars, chanVars, spawned, sent,
                   closer, whost, wret, collectVars, reportVars>>

\* client.Get(url) returns one of rets
GetReturns(w, rets) ==
    /\ wpc[w] = "get"
    /\ \E ret \in rets : wret' = [wret EXCEPT ![w] = ret]
    /\ wpc' = [wpc EXCEPT ![w] = "classify"]
    /\ UNCHANGED <<mpc, exitReason, inputVars, chanVars, spawned, sent, wg,
                   closer, whost, collectVars, reportVars>>

WorkerGet(w) == GetReturns(w, ProbeReturns)

\* a loop body that returns from worker after a failed probe
WorkerSendReturnOnErr(w) ==
    /\ wpc[w] = "classify"
    /\ Len(results) < chanCap
    /\ results' = Append(results, ProbeResult(whost[w], wret[w]))
    /\ wpc' = [wpc EXCEPT ![w] = IF wret[w].err THEN "exited" ELSE "range"]
    /\ wg' = IF wret[w].err THEN wg - 1 ELSE wg
    /\ whost' = [whost EXCEPT ![w] = <<>>]
    /\ wret' = [wret EXCEPT ![w] = NoReturn]
    /\ UNCHANGED <<mpc, exitReason, inputVars, chanCap, jobs, jobsClosed,
                   resultsClosed, spawned, sent, closer, collectVars,
                   reportVars>>

\* the rest of the loop body: fill result, results <- result
WorkerSend(w) ==
    /\ wpc[w] = "classify"
    /\ Len(results) < chanCap
    /\ results' = Append(results, ProbeResult(whost[w], wret[w]))
    /\ wpc' = [wpc EXCEPT ![w] = "range"]
    /\ whost' = [whost EXCEPT ![w] = <<>>]
    /\ wret' = [wret EXCEPT ![w] = NoReturn]
    /\ UNCHANGED <<mpc, exitReason, inputVars, chanCap, jobs, jobsClosed,
                   resultsClosed, spawned, sent, wg, closer, collectVars,
                   reportVars>>

worker(w) ==
    \/ WorkerRange(w)
    \/ WorkerExit(w)
    \/ WorkerGet(w)
    \/ WorkerSend(w)

(***************************************************************************)
(* main: collecting and reporting                                          *)
(***************************************************************************)
\* showProgress called before resultCount++
CollectStaleCount ==
    /\ mpc = "collect"
    /\ results # <<>>
    /\ resultCount' = resultCount + 1
    /\ allResults' = Append(allResults, Head(results))
    /\ results' = Tail(results)
    /\ progress' = Append(progress, showProgress(resultCount, Len(hosts)))
    /\ UNCHANGED <<mpc, exitReason, inputVars, chanCap, jobs, jobsClosed,
                   resultsClosed, poolVars, reportVars>>

\* one iteration of for result := range results
Collect ==
    /\ mpc = "collect"
    /\ results # <<>>
    /\ resultCount' = resultCount + 1
    /\ allResults' = Append(allResults, Head(results))
    /\ results' = Tail(results)
    /\ progress' = Append(progress, showProgress(resultCount + 1, Len(hosts)))
    /\ UNCHANGED <<mpc, exitReason, inputVars, chanCap, jobs, jobsClosed,
                   resultsClosed, poolVars, reportVars>>

\* a loop over results that ends as soon as results is empty
CollectDoneOnEmpty ==
    /\ mpc = "collect"
    /\ results = <<>>
    /\ mpc' = "filter"
    /\ UNCHANGED <<exitReason, inputVars, chanVars, poolVars, collectVars,
                   reportVars>>

\* for result := range results ends: results is closed and drained
CollectDone ==
    /\ mpc = "collect"
    /\ results = <<>>
    /\ resultsClosed
    /\ mpc' = "filter"
    /\ UNCHANGED <<exitReason, inputVars, chanVars, poolVars, collectVars,
                   reportVars>>

\* the filter by -l: a new slice of the successes, or allResults itself
FilterResults ==
    /\ mpc = "filter"
    /\ displayResults' =
        IF listSuccess THEN SuccessesOf(allResults) ELSE allResults
    /\ aliased' = ~listSuccess
    /\ mpc' = "sort"
    /\ UNCHANGED <<exitReason, inputVars, chanVars, poolVars, collectVars,
                   report, totalCount, successCount, successResults>>

\* sort.Slice(displayResults, ...): in place, so it reorders allResults too
\* when the two share their backing array
SortResults ==
    /\ mpc = "sort"
    /\ \E sorted \in SortSlice(displayResults) :
        /\ displayResults' = sorted
        /\ allResults' = IF aliased THEN sorted ELSE allResults
    /\ mpc' = "print"
    /\ UNCHANGED <<exitReason, inputVars, chanVars, poolVars, resultCount,
                   progress, aliased, report, totalCount, successCount,
                   successResults>>

\* the loop that prints the table
PrintTable ==
    /\ mpc = "print"
    /\ report' = [k \in 1 .. Len(displayResults) |-> Row(displayResults[k])]
    /\ mpc' = "summary"
    /\ UNCHANGED <<exitReason, inputVars, chanVars, poolVars, collectVars,
                   displayResults, aliased, totalCount, successCount,
                   successResults>>

\* a total taken from hosts instead of allResults
SummarizeDispatched ==
    /\ mpc = "summary"
    /\ totalCount' = Len(hosts)
    /\ successCount' = Len(SuccessesOf(allResults))
    /\ successResults' = SuccessesOf(allResults)
    /\ mpc' = "done"
    /\ UNCHANGED <<exitReason, inputVars, chanVars, poolVars, collectVars,
                   displayResults, aliased, report>>

\* statistics taken from displayResults instead of allResults
SummarizeDisplayed ==
    /\ mpc = "summary"
    /\ totalCount' = Len(displayResults)
    /\ successCount' = Len(SuccessesOf(displayResults))
    /\ successResults' = SuccessesOf(displayResults)
    /\ mpc' = "done"
    /\ UNCHANGED <<exitReason, inputVars, chanVars, poolVars, collectVars,
                   displayResults, aliased, report>>

\* the statistics and the successResults handed to handleLinuxSystem
Summarize ==
    /\ mpc = "summary"
    /\ totalCount' = Len(allResults)
    /\ successCount' = Len(SuccessesOf(allResults))
    /\ successResults' = SuccessesOf(allResults)
    /\ mpc' = "done"
    /\ UNCHANGED <<exitReason, inputVars, chanVars, poolVars, collectVars,
                   displayResults, aliased, report>>

main ==
    \/ ParseFlags
    \/ AcquireList
    \/ ScanLine
    \/ ScanDone
    \/ SpawnWorker
    \/ SendJob
    \/ CloseJobs
    \/ StartCloser
    \/ Collect
    \/ CollectDone
    \/ FilterResults
    \/ SortResults
    \/ PrintTable
    \/ Summarize

Next ==
    \/ main
    \/ CloserClose
    \/ \E w \in WorkerIds : worker(w)

Spec == Init /\ [][Next]_vars

(***************************************************************************)
(* The run under fair scheduling.  Whether a goroutine can go on does not   *)
(* depend on which error or which status code a probe returns, so here a    *)
(* probe returns one failure or one answer.                                 *)
(***************************************************************************)
WorkerGetEither(w) == GetReturns(w, EitherReturns)

workerFair(w) ==
    \/ WorkerRange(w)
    \/ WorkerExit(w)
    \/ WorkerGetEither(w)
    \/ WorkerSend(w)

FairNext ==
    \/ main
    \/ CloserClose
    \/ \E w \in WorkerIds : workerFair(w)

\* the Go scheduler runs every goroutine that can run, and every client.Get
\* returns within the client's Timeout
FairSpec ==
    /\ Init
    /\ [][FairNext]_vars
    /\ WF_vars(main)
    /\ WF_vars(CloserClose)
    /\ \A w \in WorkerIds : WF_vars(workerFair(w))

(***************************************************************************)
(* The probe taken alone: one worker of a run with one host, from the      *)
(* moment it calls client.Get, answered with any status code.              *)
(***************************************************************************)
ProbeHosts == {h \in {TrimSpace(l) : l \in LinePool} : KeepLine(h)}

ProbeInit ==
    /\ mpc = "collect"
    /\ numWorkers = 1
    /\ listSuccess \in BOOLEAN
    /\ exitReason = ""
    /\ \E h \in ProbeHosts :
        /\ lines = <<h>>
        /\ hosts = <<h>>
        /\ whost = [w \in WorkerIds |-> IF w = 0 THEN h ELSE <<>>]
    /\ chanCap = 1
    /\ jobs = <<>>
    /\ jobsClosed = TRUE
    /\ results = <<>>
    /\ resultsClosed = FALSE
    /\ spawned = 1
    /\ sent = 1
    /\ wg = 1
    /\ closer = "wait"
    /\ wpc = [w \in WorkerIds |-> IF w = 0 THEN "get" ELSE "none"]
    /\ wret = [w \in WorkerIds |-> NoReturn]
    /\ allResults = <<>>
    /\ resultCount = 0
    /\ progress = <<>>
    /\ displayResults = <<>>
    /\ aliased = FALSE
    /\ report = <<>>
    /\ totalCount = 0
    /\ successCount = 0
    /\ successResults = <<>>

WorkerGetAny(w) == GetReturns(w, AllProbeReturns)

ProbeNext ==
    \/ WorkerGetAny(0)
    \/ WorkerSend(0)

ProbeSpec == ProbeInit /\ [][ProbeNext]_vars

(***************************************************************************)
(* Properties                                                              *)
(***************************************************************************)
Range(q) == {q[k] : k \in DOMAIN q}

\* the multiset of the elements of a sequence
SeqBag(q) == [x \in Range(q) |-> Cardinality({k \in DOMAIN q : q[k] = x})]

HostsOf(rs) == [k \in DOMAIN rs |-> rs[k].Host]

\* main has left the loop over results
PastCollect == mpc \in {"filter", "sort", "print", "summary", "done"}

\* every CheckResult that exists: in the results channel or held by main
Outcomes == Range(results) \cup Range(allResults) \cup Range(displayResults)

\* worker w sends its result in this step
Sends(w) == wpc[w] = "classify" /\ wpc'[w] = "range"

\* the result sent in this step
Sent == results'[Len(results')]

\* C1: with at least one worker, once main has left the loop over results,
\* allResults holds exactly len(hosts) results and the multiset of their
\* hosts is the multiset of hosts: one result per dispatched host, a host
\* listed d times has d results.
C1_OneOutcomePerEndpoint ==
    (PastCollect /\ numWorkers >= 1) =>
        /\ Len(allResults) = Len(hosts)
        /\ SeqBag(HostsOf(allResults)) = SeqBag(hosts)

\* C1 witness: two workers, the same host dispatched twice, two different
\* results for it collected.
C1_Witness ==
    /\ mpc = "filter"
    /\ numWorkers = 2
    /\ Len(hosts) = 2
    /\ hosts[1] = hosts[2]
    /\ Len(allResults) = 2
    /\ allResults[1] # allResults[2]

\* the run is over: every worker started has returned, results is closed
\* and the report and the statistics are out
RunComplete ==
    /\ mpc = "done"
    /\ resultsClosed
    /\ closer = "done"
    /\ \A w \in WorkerIds : wpc[w] \in {"none", "exited"}

\* C2: under fair scheduling, once main starts the pool with at least one
\* worker, the run reaches its end: the workers return, results is closed,
\* the loop over results ends and the report is printed.
C2_ProbingTerminates == (mpc = "spawn" /\ numWorkers >= 1) ~> RunComplete

\* C2 witness: a run of two workers over two hosts that is complete.
C2_Witness ==
    /\ RunComplete
    /\ numWorkers = 2
    /\ Len(hosts) = 2
    /\ Len(report) >= 1

\* C3: whenever a worker sends the result of a failed probe, IsTimeout is
\* true exactly when the failure was the client's Timeout expiring.
C3_TimedOutIffDeadline ==
    [][\A w \in WorkerIds :
        (Sends(w) /\ wret[w].err) =>
            (Sent.IsTimeout <=> wret[w].cause = "ClientTimeout")]_vars

\* C4: whenever a worker sends the result of an answered probe, Available is
\* true exactly for a status code in [200,400) or 401, StatusCode is that
\* status code and IsTimeout is false.
C4_ReachableByStatus ==
    [][\A w \in WorkerIds :
        (Sends(w) /\ ~wret[w].err) =>
            /\ Sent.Available <=> wret[w].status \in (200 .. 399) \cup {401}
            /\ Sent.StatusCode = wret[w].status
            /\ ~Sent.IsTimeout]_vars

\* C4 witness: the result of a probe answered with 401 has been sent, and
\* it is available.
C4_Witness ==
    /\ results # <<>>
    /\ results[1].StatusCode = 401
    /\ results[1].Available
    /\ ~results[1].IsTimeout

\* C5: no result in the results channel or held by main is both Available
\* and IsTimeout.
C5_NeverReachableAndTimedOut ==
    \A o \in Outcomes : ~(o.Available /\ o.IsTimeout)

\* C5 witness: main holds an available result and a timed-out one.
C5_Witness ==
    /\ \E o \in Range(allResults) : o.Available
    /\ \E o \in Range(allResults) : o.IsTimeout

\* C6: the result sent for a failed probe has StatusCode 0, Available false
\* and Time 0, and every result with StatusCode 0 has Available false.
C6_FailureFields ==
    [][/\ \A w \in WorkerIds :
            (Sends(w) /\ wret[w].err) =>
                /\ Sent.StatusCode = 0
                /\ ~Sent.Available
                /\ Sent.Time = 0
       /\ \A o \in Outcomes' : o.StatusCode = 0 => ~o.Available]_vars

\* C6 witness: main holds the result of a failed probe beside that of an
\* answered one.
C6_Witness ==
    /\ \E o \in Range(allResults) : o.StatusCode = 0 /\ o.Time = 0
    /\ \E o \in Range(allResults) : o.StatusCode # 0 /\ o.Time # 0

\* the results the table is to show
Shown == IF listSuccess
         THEN SelectSeq(allResults, LAMBDA o : o.Available /\ ~o.IsTimeout)
         ELSE allResults

Ascending(hs) == \A k \in 1 .. (Len(hs) - 1) : ~StrLess(hs[k + 1], hs[k])

\* C7: the rows printed are in non-decreasing order of Host, and they are,
\* as a multiset, the rows of the results to show: none dropped, none twice.
C7_ReportSorted ==
    mpc \in {"summary", "done"} =>
        /\ Ascending(HostsOf(report))
        /\ SeqBag(report) = SeqBag([k \in DOMAIN Shown |-> Row(Shown[k])])

\* C7 witness: two successful results that arrived in descending order of
\* Host, printed as two rows.
C7_Witness ==
    /\ mpc = "done"
    /\ listSuccess
    /\ Len(allResults) = 2
    /\ StrLess(allResults[2].Host, allResults[1].Host)
    /\ Len(report) = 2

\* C8: once sorted, displayResults holds with -l exactly the results that
\* are Available and not IsTimeout, in ascending order of Host, and without
\* -l every result of allResults.
C8_DisplayedView ==
    mpc \in {"print", "summary", "done"} =>
        /\ SeqBag(displayResults) = SeqBag(Shown)
        /\ listSuccess =>
            /\ \A o \in Range(displayResults) : o.Available /\ ~o.IsTimeout
            /\ Ascending(HostsOf(displayResults))
        /\ ~listSuccess => Len(displayResults) = Len(allResults)

\* C8 witness: with -l, of an answered-but-refused result (status 400) and
\* a successful one only the successful one is displayed.
C8_Witness ==
    /\ mpc = "done"
    /\ listSuccess
    /\ Len(allResults) = 2
    /\ \E o \in Range(allResults) : o.StatusCode = 400
    /\ Len(displayResults) = 1

\* the number of successful results of a slice
Successes(rs) == Cardinality({k \in DOMAIN rs : rs[k].Available /\ ~rs[k].IsTimeout})

\* C9: at the end totalCount is the number of results main received and
\* successCount the number of them that are Available and not IsTimeout,
\* with or without -l; and no step after the loop over results (the sort
\* among them) changes the multiset of allResults.
C9_SummaryCounters ==
    [][/\ mpc' = "done" =>
            /\ totalCount' = resultCount'
            /\ successCount' = Successes(allResults')
       /\ PastCollect => SeqBag(allResults') = SeqBag(allResults)]_vars

\* C9 witness: with -l, two results received of which one is successful.
C9_Witness ==
    /\ mpc = "done"
    /\ listSuccess
    /\ totalCount = 2
    /\ successCount = 1
    /\ Len(report) = 1

C11_SuccessListSorted ==
    mpc = "done" =>
        /\ SeqBag(successResults) = SeqBag(SelectSeq(allResults,
                LAMBDA o : o.Available /\ ~o.IsTimeout))
        /\ Ascending(HostsOf(successResults))

\* the index of the first and of the last byte of a line that is not white
\* space, 0 when there is none
FirstInk(line) ==
    IF \E k \in DOMAIN line : ~IsSpace(line[k])
    THEN CHOOSE k \in DOMAIN line :
            /\ ~IsSpace(line[k])
            /\ \A j \in 1 .. (k - 1) : IsSpace(line[j])
    ELSE 0

LastInk(line) ==
    IF \E k \in DOMAIN line : ~IsSpace(line[k])
    THEN CHOOSE k \in DOMAIN line :
            /\ ~IsSpace(line[k])
            /\ \A j \in (k + 1) .. Len(line) : IsSpace(line[j])
    ELSE 0

\* a line that names an endpoint: it has a byte that is not white space and
\* the first such byte is not '#'
NamesEndpoint(line) == FirstInk(line) # 0 /\ line[FirstInk(line)] # 35

\* the endpoints a sequence of lines dispatches
RECURSIVE EndpointsOf(_)
EndpointsOf(ls) ==
    IF ls = <<>> THEN <<>>
    ELSE LET line == ls[Len(ls)]
             rest == EndpointsOf(SubSeq(ls, 1, Len(ls) - 1))
         IN  IF NamesEndpoint(line)
             THEN Append(rest, SubSeq(line, FirstInk(line), LastInk(line)))
             ELSE rest

\* C12: hosts is the subsequence of the lines read that, trimmed, are not
\* empty and do not start with '#', each trimmed, in the order read,
\* duplicates kept.
C12_HostsAreFilteredLines == hosts = EndpointsOf(lines)

\* C12 witness: of two lines read, the comment line with leading white
\* space was dropped and the endpoint with white space around it was kept,
\* trimmed.
C12_Witness ==
    /\ Len(lines) = 2
    /\ \E k \in {1, 2} : lines[k] = <<32, 97, 9>>
    /\ hosts = <<<<97>>>>
    /\ \E k \in {1, 2} : lines[k] = <<32, 35, 32, 97>>

\* main has made the channels
Probing == mpc \in {"spawn", "closer", "collect"} \/ PastCollect

\* nothing of the pool exists: no channel, no worker, no closer, no result,
\* no progress indication and no report
NothingStarted ==
    /\ chanCap = 0 /\ jobs = <<>> /\ ~jobsClosed
    /\ results = <<>> /\ ~resultsClosed
    /\ spawned = 0 /\ sent = 0 /\ wg = 0 /\ closer = "none"
    /\ \A w \in WorkerIds : wpc[w] = "none" /\ whost[w] = <<>>
    /\ allResults = <<>> /\ resultCount = 0 /\ progress = <<>>
    /\ displayResults = <<>> /\ report = <<>>
    /\ totalCount = 0 /\ successCount = 0 /\ successResults = <<>>

\* C13: main returns early exactly for a failed download, a failed open, a
\* read error or an empty list of hosts, and then nothing of the pool was
\* ever started; the channels are only made for a list that is not empty.
C13_NoProbingWithoutList ==
    /\ mpc = "exit" <=> exitReason \in {"download", "open", "read", "empty"}
    /\ mpc = "exit" => NothingStarted
    /\ exitReason = "empty" => hosts = <<>>
    /\ Probing => hosts # <<>> /\ exitReason = ""

\* C13 witness: two lines were read, none names an endpoint, and main has
\* returned for the empty list.
C13_Witness ==
    /\ mpc = "exit"
    /\ exitReason = "empty"
    /\ Len(lines) = 2
    /\ NothingStarted

\* worker w was started and has returned
Exited(w) == wpc[w] = "exited"

\* worker w holds a host whose result it has not sent yet
MidProbe(w) == wpc[w] \in {"get", "classify"}

\* C14: results is closed only when each of the numWorkers workers has
\* returned; so no worker holds an unsent result, and none sends, once
\* results is closed.
C14_SinkClosedAfterWorkers ==
    [][/\ resultsClosed' =>
            \A w \in WorkerIds :
                /\ w < numWorkers' => Exited(w)'
                /\ ~MidProbe(w)'
       /\ \A w \in WorkerIds : Sends(w) => ~resultsClosed /\ ~resultsClosed']_vars

\* C14 witness: jobs is closed and drained, one worker has returned, the
\* other is still mid-probe and results is still open.
C14_Witness ==
    /\ jobsClosed
    /\ jobs = <<>>
    /\ Exited(0)
    /\ MidProbe(1)
    /\ closer = "wait"
    /\ ~resultsClosed

\* C15: with at least one worker, main is past the loop over results only
\* when results is closed and empty, no worker holds a host, jobs is empty
\* and resultCount is len(hosts): the close of results and the count agree.
C15_CollectEndsComplete ==
    (PastCollect /\ numWorkers >= 1) =>
        /\ resultsClosed
        /\ results = <<>>
        /\ resultCount = Len(hosts)
        /\ jobs = <<>>
        /\ \A w \in WorkerIds : ~MidProbe(w)

\* C15 witness: main has just left the loop, two workers, two hosts, two
\* results counted, results closed.
C15_Witness ==
    /\ mpc = "filter"
    /\ numWorkers = 2
    /\ Len(hosts) = 2
    /\ resultCount = 2
    /\ resultsClosed
    /\ results = <<>>

\* how often h occurs in a sequence of hosts
Occurrences(hs, h) == Cardinality({k \in DOMAIN hs : hs[k] = h})

\* the places an instance of host h can be in
NotYetSent(h) == Occurrences(SubSeq(hosts, sent + 1, Len(hosts)), h)
InJobs(h) == Occurrences(jobs, h)
BeingProbed(h) == Cardinality({w \in WorkerIds : MidProbe(w) /\ whost[w] = h})
InResults(h) == Occurrences(HostsOf(results), h)
Recorded(h) == Occurrences(HostsOf(allResults), h)

\* every host that is anywhere in the pool
HostsInFlight ==
    Range(jobs) \cup {whost[w] : w \in {v \in WorkerIds : MidProbe(v)}}
        \cup Range(HostsOf(results)) \cup Range(HostsOf(allResults))

\* C16: once the channels exist, every instance of a host of hosts is in
\* exactly one place: not yet sent by main, in jobs, held by one worker, in
\* results, or in allResults; nothing else is in the pool; and resultCount
\* never exceeds len(hosts).
C16_EachEndpointInOnePlace ==
    Probing =>
        /\ \A h \in Range(hosts) :
            Occurrences(hosts, h) =
                NotYetSent(h) + InJobs(h) + BeingProbed(h) + InResults(h)
                    + Recorded(h)
        /\ HostsInFlight \subseteq Range(hosts)
        /\ resultCount = Len(allResults)
        /\ resultCount <= Len(hosts)

\* C16 witness: all hosts are sent; of two instances of the same host one is
\* still in jobs and the other is held by a worker.
C16_Witness ==
    /\ Len(hosts) = 2
    /\ hosts[1] = hosts[2]
    /\ sent = 2
    /\ Len(jobs) = 1
    /\ MidProbe(0)
    /\ ~MidProbe(1)

\* some host of hosts is not in jobs yet and has never been
SomeNotEnqueued == sent < Len(hosts)

\* worker w waits to receive from an empty jobs
WaitsOnEmpty(w) == wpc[w] = "range" /\ jobs = <<>>

\* C17 as stated: while some host is not yet enqueued, no worker has pulled
\* a host and no worker waits on an empty jobs.
C17_FilledBeforeWorkersStart ==
    SomeNotEnqueued =>
        \A w \in WorkerIds : ~MidProbe(w) /\ ~WaitsOnEmpty(w)

\* C17 amended: jobs is filled once, in the order of hosts, and completely
\* before it is closed: jobs always holds the hosts sent and not yet
\* received, and while some host is not yet enqueued jobs is open, every
\* worker is started and none has returned.
C17_FilledOnceBeforeClose ==
    /\ sent <= Len(hosts)
    /\ Len(jobs) <= sent
    /\ jobs = SubSeq(hosts, sent - Len(jobs) + 1, sent)
    /\ (Probing /\ SomeNotEnqueued) =>
        /\ ~jobsClosed
        /\ ~resultsClosed
        /\ \A w \in WorkerIds : ~Exited(w)
    /\ sent > 0 => spawned >= numWorkers

\* C17 witness: one of two hosts is enqueued and a worker has already
\* pulled it, while the other worker waits on the empty jobs.
C17_Witness ==
    /\ Len(hosts) = 2
    /\ sent = 1
    /\ MidProbe(0)
    /\ WaitsOnEmpty(1)

\* worker w, holding what client.Get returned, takes its next step
Classifies(w) == wpc[w] = "classify" /\ wpc'[w] # "classify"

\* C18: a worker that sends the result of a failed probe adds exactly one
\* result to results, for its host and not Available, and is back at the
\* head of its loop; the step changes nothing else: not the other workers,
\* not jobs, not the WaitGroup, not the closer, not what main holds.
C18_FailureAbsorbed ==
    [][\A w \in WorkerIds :
        (Classifies(w) /\ wret[w].err) =>
            /\ results' = Append(results, Sent)
            /\ Sent.Host = whost[w]
            /\ ~Sent.Available /\ Sent.StatusCode = 0
            /\ wpc'[w] = "range"
            /\ \A v \in WorkerIds \ {w} :
                wpc'[v] = wpc[v] /\ whost'[v] = whost[v] /\ wret'[v] = wret[v]
            /\ UNCHANGED <<mpc, exitReason, jobs, jobsClosed, resultsClosed,
                           wg, closer, allResults, resultCount, progress>>]_vars

\* C18 witness: the only worker has sent the result of a failed probe of
\* the first host and is probing the second one.
C18_Witness ==
    /\ numWorkers = 1
    /\ Len(hosts) = 2
    /\ MidProbe(0)
    /\ whost[0] = hosts[2]
    /\ \E o \in Range(results) \cup Range(allResults) :
        o.StatusCode = 0 /\ ~o.Available

\* main is at jobs <- host
MainAtSend == mpc = "spawn" /\ spawned >= numWorkers /\ sent < Len(hosts)

\* worker w is at results <- result
WorkerAtSend(w) == wpc[w] = "classify"

\* C19: both channels have capacity len(hosts) and never hold more; when
\* main is at its send jobs has room, and when a worker is at its send
\* results has room, whatever the workers and main have consumed.
C19_SendsNeverBlock ==
    Probing =>
        /\ chanCap = Len(hosts)
        /\ Len(jobs) <= chanCap
        /\ Len(results) <= chanCap
        /\ MainAtSend => Len(jobs) < chanCap
        /\ \A w \in WorkerIds : WorkerAtSend(w) => Len(results) < chanCap

\* C19 witness: both workers have returned and results holds a result for
\* each of two hosts, while main has not received any.
C19_Witness ==
    /\ numWorkers = 2
    /\ Len(hosts) = 2
    /\ Exited(0) /\ Exited(1)
    /\ Len(results) = 2
    /\ resultCount = 0

\* what a run without workers looks like: no worker, no result anywhere, no
\* progress indication; once jobs is closed it holds every host; results is
\* closed as soon as the closer has run; the report is empty and the
\* statistics are 0 of 0
NoWorkerRun ==
    /\ \A w \in WorkerIds : wpc[w] = "none"
    /\ spawned = 0 /\ wg = 0
    /\ results = <<>> /\ allResults = <<>> /\ resultCount = 0
    /\ progress = <<>>
    /\ jobsClosed => jobs = hosts
    /\ closer = "done" <=> resultsClosed
    /\ PastCollect => resultsClosed
    /\ displayResults = <<>> /\ report = <<>>
    /\ totalCount = 0 /\ successCount = 0 /\ successResults = <<>>

\* C20: with -workers <= 0 and a list of hosts that is not empty, every
\* state is one of a run without workers, and under fair scheduling the run
\* that has made its channels reaches its end, with all hosts still in jobs.
C20_NoWorkersRunsEmpty ==
    /\ [](numWorkers <= 0 => NoWorkerRun)
    /\ (mpc = "spawn" /\ numWorkers <= 0)
           ~> (mpc = "done" /\ Len(jobs) = Len(hosts) /\ totalCount = 0)

\* C20 witness: -workers 0, two hosts, the run is at its end with both
\* hosts in jobs and statistics 0 of 0.
C20_Witness ==
    /\ mpc = "done"
    /\ numWorkers = 0
    /\ Len(hosts) = 2
    /\ jobs = hosts
    /\ resultsClosed
    /\ totalCount = 0
    /\ successCount = 0

====
